---- MODULE Spec2Model ----
(***************************************************************************)
(* A model of create-project-cli: the argument parser, the orchestrator    *)
(* (ProjectCLI.run, validateConfig, createProject, initGit) and the        *)
(* template generator, over an abstract filesystem.                        *)
(*                                                                         *)
(* Strings are atomic in TLC, so every string the program inspects by      *)
(* character (startsWith, the name pattern, toLowerCase) is given by the   *)
(* table Chars; the string functions are computed on the characters.       *)
(***************************************************************************)
EXTENDS Integers, Sequences, FiniteSets

VARIABLES
    args,       \* process.argv.slice(2) of the running process
    pc,         \* position of the process in ProjectCLI.run
    config,     \* the parser's result (NoConfig before parsing)
    cwd,        \* process.cwd() of the running process
    dirs,       \* the filesystem: the directories that exist
    files,      \* the filesystem: path -> content of the files that exist
    step,       \* number of generator operations already executed
    savedCwd,   \* initGit's local originalCwd
    out,        \* the messages logged so far, in order
    execLog,    \* the shell commands run so far, with the cwd they ran in
    exitCode,   \* NoExit while running, then the process's exit code
    err,        \* the Error caught by run's catch (NoError if none)
    projectPath,\* createProject's local projectPath
    start,      \* the filesystem as it was when the running process started
    prev,       \* the previous process: its config and exit code
    runs,       \* number of processes started so far
    other       \* a second process that is not scheduled now (NoOther if none)

vars == <<args, pc, config, cwd, dirs, files, step, savedCwd, out, execLog,
          exitCode, err, projectPath, start, prev, runs, other>>

-----------------------------------------------------------------------------
(* Bounds *)

MaxArgs == 3

MaxRuns == 2

MaxParseArgs == 5

-----------------------------------------------------------------------------
(* Strings *)

Flags == {"--template", "-t", "--git", "-g", "--author", "-a", "--help", "-h", "-x"}

Words == {"app", "x@y", "", "web", "Api", "cli", "fullstack"}

Tokens == Flags \cup Words

\* every string whose characters the program looks at
Strings == Tokens \cup {"api", "basic"}

Chars(s) ==
    CASE s = ""           -> << >>
      [] s = "app"        -> <<"a", "p", "p">>
      [] s = "x@y"        -> <<"x", "@", "y">>
      [] s = "web"        -> <<"w", "e", "b">>
      [] s = "Api"        -> <<"A", "p", "i">>
      [] s = "api"        -> <<"a", "p", "i">>
      [] s = "cli"        -> <<"c", "l", "i">>
      [] s = "basic"      -> <<"b", "a", "s", "i", "c">>
      [] s = "fullstack"  -> <<"f", "u", "l", "l", "s", "t", "a", "c", "k">>
      [] s = "--template" -> <<"-", "-", "t", "e", "m", "p", "l", "a", "t", "e">>
      [] s = "-t"         -> <<"-", "t">>
      [] s = "--git"      -> <<"-", "-", "g", "i", "t">>
      [] s = "-g"         -> <<"-", "g">>
      [] s = "--author"   -> <<"-", "-", "a", "u", "t", "h", "o", "r">>
      [] s = "-a"         -> <<"-", "a">>
      [] s = "--help"     -> <<"-", "-", "h", "e", "l", "p">>
      [] s = "-h"         -> <<"-", "h">>
      [] s = "-x"         -> <<"-", "x">>

\* String.prototype.startsWith('-')
StartsWithDash(s) == LET c == Chars(s) IN Len(c) >= 1 /\ c[1] = "-"

LowerChar(c) == IF c = "A" THEN "a" ELSE c

\* mutant: the value is stored as given
ToLowerCaseUnchanged(s) == s

\* String.prototype.toLowerCase
ToLowerCase(s) ==
    LET c == Chars(s)
        lowered == [i \in 1..Len(c) |-> LowerChar(c[i])]
    IN  CHOOSE u \in Strings : Chars(u) = lowered

\* the character class [a-zA-Z0-9_-] over the characters in use
NameChars == {"a", "b", "c", "e", "f", "i", "k", "l", "p", "s", "t", "u", "w",
              "x", "y", "A", "-", "_"}

\* /^[a-zA-Z0-9_-]+$/.test(s)
NameRegexTest(s) ==
    LET c == Chars(s)
    IN  /\ Len(c) >= 1
        /\ \A i \in 1..Len(c) : c[i] \in NameChars

-----------------------------------------------------------------------------
(* ArgumentParser *)

Undefined == "undefined"  \* not a token: every token is in Tokens

DefaultConfig ==
    [projectName |-> "", template |-> "basic", gitInit |-> FALSE, author |-> ""]

\* args.find(arg => !arg.startsWith('-')), from index i on
RECURSIVE FindFrom(_, _)
FindFrom(a, i) ==
    IF i > Len(a) THEN Undefined
    ELSE IF ~StartsWithDash(a[i]) THEN a[i]
    ELSE FindFrom(a, i + 1)

\* mutant: only the first argument can be the project name
FirstArgAsProjectName(a) ==
    IF Len(a) > 0 /\ ~StartsWithDash(a[1]) THEN a[1] ELSE Undefined

FindProjectName(a) == FindFrom(a, 1)

\* JavaScript falsiness of a string-or-undefined value
Falsy(v) == v = Undefined \/ v = ""

\* args[i], undefined out of range
At(a, i) == IF i \in 1..Len(a) THEN a[i] ELSE Undefined

\* mutant: a following flag is taken as the value
MissingValueAtEndOnly(a, i) == Falsy(At(a, i + 1))

\* !args[i + 1] || args[i + 1].startsWith('-')
MissingValue(a, i) ==
    Falsy(At(a, i + 1)) \/ StartsWithDash(At(a, i + 1))

\* throw new Error(...): the error kind and what its message names
Thrown(kind, detail) == [ok |-> FALSE, kind |-> kind, detail |-> detail]

Returned(c) == [ok |-> TRUE, config |-> c]

\* the for loop of parse, from index i on with the config built so far
RECURSIVE ParseFlags(_, _, _)
\* mutant: the switch has a default case that throws on an unknown flag
ParseFlagsRejectsUnknown(a, i, c) ==
    IF i > Len(a) THEN Returned(c)
    ELSE IF a[i] \in {"--template", "-t"} THEN
        IF MissingValue(a, i) THEN Thrown("MissingFlagValue", <<"--template">>)
        ELSE ParseFlags(a, i + 2, [c EXCEPT !.template = ToLowerCase(a[i + 1])])
    ELSE IF a[i] \in {"--git", "-g"} THEN
        ParseFlags(a, i + 1, [c EXCEPT !.gitInit = TRUE])
    ELSE IF a[i] \in {"--author", "-a"} THEN
        IF MissingValue(a, i) THEN Thrown("MissingFlagValue", <<"--author">>)
        ELSE ParseFlags(a, i + 2, [c EXCEPT !.author = a[i + 1]])
    ELSE IF StartsWithDash(a[i]) THEN Thrown("UnknownFlag", <<a[i]>>)
    ELSE ParseFlags(a, i + 1, c)

\* mutant: a flag given before keeps its value
ParseFlagsFirstWins(a, i, c) ==
    IF i > Len(a) THEN Returned(c)
    ELSE IF a[i] \in {"--template", "-t"} THEN
        IF MissingValue(a, i) THEN Thrown("MissingFlagValue", <<"--template">>)
        ELSE ParseFlags(a, i + 2,
                        IF c.template = "basic"
                        THEN [c EXCEPT !.template = ToLowerCase(a[i + 1])]
                        ELSE c)
    ELSE IF a[i] \in {"--git", "-g"} THEN
        ParseFlags(a, i + 1, [c EXCEPT !.gitInit = TRUE])
    ELSE IF a[i] \in {"--author", "-a"} THEN
        IF MissingValue(a, i) THEN Thrown("MissingFlagValue", <<"--author">>)
        ELSE ParseFlags(a, i + 2,
                        IF c.author = ""
                        THEN [c EXCEPT !.author = a[i + 1]]
                        ELSE c)
    ELSE ParseFlags(a, i + 1, c)

ParseFlags(a, i, c) ==
    IF i > Len(a) THEN Returned(c)
    ELSE IF a[i] \in {"--template", "-t"} THEN
        IF MissingValue(a, i) THEN Thrown("MissingFlagValue", <<"--template">>)
        ELSE ParseFlags(a, i + 2, [c EXCEPT !.template = ToLowerCase(a[i + 1])])
    ELSE IF a[i] \in {"--git", "-g"} THEN
        ParseFlags(a, i + 1, [c EXCEPT !.gitInit = TRUE])
    ELSE IF a[i] \in {"--author", "-a"} THEN
        IF MissingValue(a, i) THEN Thrown("MissingFlagValue", <<"--author">>)
        ELSE ParseFlags(a, i + 2, [c EXCEPT !.author = a[i + 1]])
    ELSE ParseFlags(a, i + 1, c)

\* mutant: the flags are gone through before the project name is checked
ParseFlagsBeforeName(a) ==
    LET r == ParseFlags(a, 1, [DefaultConfig EXCEPT !.projectName = FindProjectName(a)])
    IN  IF ~r.ok THEN r
        ELSE IF Falsy(FindProjectName(a)) THEN Thrown("MissingProjectName", << >>)
        ELSE r

Parse(a) ==
    IF Falsy(FindProjectName(a)) THEN Thrown("MissingProjectName", << >>)
    ELSE ParseFlags(a, 1, [DefaultConfig EXCEPT !.projectName = FindProjectName(a)])

-----------------------------------------------------------------------------
(* The filesystem (fs.existsSync, fs.mkdirSync, fs.writeFileSync) and paths *)

\* the directory every process is started in
InitialCwd == <<"home">>

\* mutant: the base directory is left out of the path
JoinWithoutBase(base, rel) == rel

\* path.join(base, ...names) for names without separators
Join(base, rel) == base \o rel

Prefixes(p) == {SubSeq(p, 1, n) : n \in 1..Len(p)}

Parent(p) == SubSeq(p, 1, Len(p) - 1)

\* mutant: only files count as existing
ExistsSyncFilesOnly(p) == p \in DOMAIN files

\* fs.existsSync(p)
ExistsSync(p) == p \in dirs \/ p \in DOMAIN files

\* fs.mkdirSync(p, {recursive: true}) cannot succeed through a file
MkdirPossible(p) == \A q \in Prefixes(p) : q \notin DOMAIN files

\* the directories after fs.mkdirSync(p, {recursive: true})
MkdirSync(p) == dirs \cup Prefixes(p)

\* fs.writeFileSync(p, ...) needs the parent directory and no directory at p
WritePossible(p) == Parent(p) \in dirs /\ p \notin dirs

\* the files after fs.writeFileSync(p, content, 'utf8')
WriteFileSync(p, content) ==
    [q \in DOMAIN files \cup {p} |-> IF q = p THEN content ELSE files[q]]

-----------------------------------------------------------------------------
(* Logger *)

Info(text) == [level |-> "info", text |-> text]

Success(text) == [level |-> "success", text |-> text]

Warning(text) == [level |-> "warning", text |-> text]

ErrorMsg(text) == [level |-> "error", text |-> text]

HelpText == [level |-> "log", text |-> "USAGE OPTIONS EXAMPLES TEMPLATES"]

-----------------------------------------------------------------------------
(* TemplateGenerator: each template is the sequence of createDir and       *)
(* writeFile calls its method makes, in program order.                     *)

\* the values new Date().toLocaleDateString() may return
Dates == {"1/1/2026", "1/2/2026"}

\* this.createDir(path.join(projectPath, ...rel))
D(rel) == [op |-> "createDir", rel |-> rel]

\* this.writeFile(path.join(projectPath, ...rel), content)
F(rel, content) == [op |-> "writeFile", rel |-> rel, content |-> content]

\* a template literal: the literal text and the values interpolated into it
Text(id, uses) == [kind |-> "text", id |-> id, uses |-> uses]

\* JSON.stringify(record, null, 2)
Json(record) == [kind |-> "json", value |-> record]

\* mutant: the manifest takes the README's default author
AuthorOrEmptyYourName(author) == IF Falsy(author) THEN "Your Name" ELSE author

\* author || ''
AuthorOrEmpty(author) == IF Falsy(author) THEN "" ELSE author

\* author || 'Your Name'
AuthorOrYourName(author) == IF Falsy(author) THEN "Your Name" ELSE author

KnownReadmeTemplates == {"basic", "web", "api", "cli", "fullstack"}

\* templateDescriptions[template], runInstructions[template]
ReadmeEntry(table, template) ==
    IF template \in KnownReadmeTemplates THEN table \o "." \o template ELSE Undefined

\* structures[template] || structures.basic, each starting `${template}-project/`
GetProjectStructure(template) ==
    IF template \in KnownReadmeTemplates
    THEN <<template \o "-project/", "structures." \o template>>
    ELSE <<template \o "-project/", "structures.basic">>

\* mutant: the date is also put into the title
GenerateReadmeDatedTitle(projectName, template, author, now) ==
    [kind        |-> "readme",
     title       |-> projectName \o " " \o now,
     description |-> ReadmeEntry("templateDescriptions", template),
     structure   |-> GetProjectStructure(template),
     cd          |-> projectName,
     run         |-> ReadmeEntry("runInstructions", template),
     author      |-> AuthorOrYourName(author),
     createdOn   |-> now]

GenerateReadme(projectName, template, author, now) ==
    [kind        |-> "readme",
     title       |-> projectName,
     description |-> ReadmeEntry("templateDescriptions", template),
     structure   |-> GetProjectStructure(template),
     cd          |-> projectName,
     run         |-> ReadmeEntry("runInstructions", template),
     author      |-> AuthorOrYourName(author),
     createdOn   |-> now]

\* mutant: the utils directory and its helper file are left out
GenerateBasicTemplateWithoutUtils(o, now) ==
    << D(<<"src">>),
       D(<<"tests">>),
       F(<<"src", "index.js">>, Text("basic/src/index.js", <<o.projectName>>)),
       F(<<"README.md">>, GenerateReadme(o.projectName, "basic", o.author, now)),
       F(<<".gitignore">>, Text("basic/.gitignore", << >>)),
       F(<<"package.json">>, Json(
           [name        |-> o.projectName,
            version     |-> "1.0.0",
            description |-> o.projectName \o " - A basic project",
            main        |-> "src/index.js",
            scripts     |-> [start |-> "node src/index.js",
                             test  |-> "echo \"Error: no test specified\" && exit 1"],
            keywords    |-> << >>,
            author      |-> AuthorOrEmpty(o.author),
            license     |-> "MIT"])) >>

GenerateBasicTemplate(o, now) ==
    << D(<<"src">>),
       D(<<"utils">>),
       D(<<"tests">>),
       F(<<"src", "index.js">>, Text("basic/src/index.js", <<o.projectName>>)),
       F(<<"utils", "helpers.js">>, Text("basic/utils/helpers.js", <<o.projectName>>)),
       F(<<"README.md">>, GenerateReadme(o.projectName, "basic", o.author, now)),
       F(<<".gitignore">>, Text("basic/.gitignore", << >>)),
       F(<<"package.json">>, Json(
           [name        |-> o.projectName,
            version     |-> "1.0.0",
            description |-> o.projectName \o " - A basic project",
            main        |-> "src/index.js",
            scripts     |-> [start |-> "node src/index.js",
                             test  |-> "echo \"Error: no test specified\" && exit 1"],
            keywords    |-> << >>,
            author      |-> AuthorOrEmpty(o.author),
            license     |-> "MIT"])) >>

GenerateWebTemplate(o, now) ==
    << D(<<"src">>),
       D(<<"src", "css">>),
       D(<<"src", "js">>),
       D(<<"public">>),
       D(<<"assets">>),
       F(<<"src", "index.html">>,
         Text("web/src/index.html", <<o.projectName, AuthorOrYourName(o.author)>>)),
       F(<<"src", "css", "style.css">>, Text("web/src/css/style.css", <<o.projectName>>)),
       F(<<"src", "js", "app.js">>, Text("web/src/js/app.js", <<o.projectName>>)),
       F(<<"README.md">>, GenerateReadme(o.projectName, "web", o.author, now)),
       F(<<".gitignore">>, Text("web/.gitignore", << >>)),
       F(<<"package.json">>, Json(
           [name        |-> o.projectName,
            version     |-> "1.0.0",
            description |-> o.projectName \o " - A web application",
            main        |-> "src/index.html",
            scripts     |-> [start |-> "echo \"Open src/index.html in your browser\""],
            keywords    |-> <<"web", "html", "css", "javascript">>,
            author      |-> AuthorOrEmpty(o.author),
            license     |-> "MIT"])) >>

GenerateApiTemplate(o, now) ==
    << D(<<"src">>),
       D(<<"src", "routes">>),
       D(<<"src", "controllers">>),
       D(<<"src", "models">>),
       D(<<"src", "middleware">>),
       D(<<"utils">>),
       D(<<"config">>),
       F(<<"src", "server.js">>, Text("api/src/server.js", <<o.projectName>>)),
       F(<<"src", "routes", "index.js">>, Text("api/src/routes/index.js", << >>)),
       F(<<"src", "controllers", "index.js">>, Text("api/src/controllers/index.js", << >>)),
       F(<<"config", "config.js">>, Text("api/config/config.js", << >>)),
       F(<<"README.md">>, GenerateReadme(o.projectName, "api", o.author, now)),
       F(<<".gitignore">>, Text("api/.gitignore", << >>)),
       F(<<"package.json">>, Json(
           [name        |-> o.projectName,
            version     |-> "1.0.0",
            description |-> o.projectName \o " - REST API",
            main        |-> "src/server.js",
            scripts     |-> [start |-> "node src/server.js", dev |-> "node src/server.js"],
            keywords    |-> <<"api", "rest", "backend">>,
            author      |-> AuthorOrEmpty(o.author),
            license     |-> "MIT"])) >>

\* mutant: the commands directory is created after src/cli.js is written
GenerateCliTemplateDirAfterFile(o, now) ==
    << D(<<"src">>),
       D(<<"utils">>),
       F(<<"src", "cli.js">>, Text("cli/src/cli.js", <<o.projectName>>)),
       D(<<"commands">>),
       F(<<"commands", "index.js">>, Text("cli/commands/index.js", << >>)),
       F(<<"README.md">>, GenerateReadme(o.projectName, "cli", o.author, now)),
       F(<<".gitignore">>, Text("cli/.gitignore", << >>)),
       F(<<"package.json">>, Json(
           [name        |-> o.projectName,
            version     |-> "1.0.0",
            description |-> o.projectName \o " - Command-line tool",
            main        |-> "src/cli.js",
            bin         |-> {<<o.projectName, "./src/cli.js">>},
            scripts     |-> [start |-> "node src/cli.js"],
            keywords    |-> <<"cli", "command-line", "tool">>,
            author      |-> AuthorOrEmpty(o.author),
            license     |-> "MIT"])) >>

\* mutant: the bin entry has a fixed key
GenerateCliTemplateFixedBinKey(o, now) ==
    << D(<<"src">>),
       D(<<"utils">>),
       D(<<"commands">>),
       F(<<"src", "cli.js">>, Text("cli/src/cli.js", <<o.projectName>>)),
       F(<<"commands", "index.js">>, Text("cli/commands/index.js", << >>)),
       F(<<"README.md">>, GenerateReadme(o.projectName, "cli", o.author, now)),
       F(<<".gitignore">>, Text("cli/.gitignore", << >>)),
       F(<<"package.json">>, Json(
           [name        |-> o.projectName,
            version     |-> "1.0.0",
            description |-> o.projectName \o " - Command-line tool",
            main        |-> "src/cli.js",
            bin         |-> {<<"cli", "./src/cli.js">>},
            scripts     |-> [start |-> "node src/cli.js"],
            keywords    |-> <<"cli", "command-line", "tool">>,
            author      |-> AuthorOrEmpty(o.author),
            license     |-> "MIT"])) >>

GenerateCliTemplate(o, now) ==
    << D(<<"src">>),
       D(<<"utils">>),
       D(<<"commands">>),
       F(<<"src", "cli.js">>, Text("cli/src/cli.js", <<o.projectName>>)),
       F(<<"commands", "index.js">>, Text("cli/commands/index.js", << >>)),
       F(<<"README.md">>, GenerateReadme(o.projectName, "cli", o.author, now)),
       F(<<".gitignore">>, Text("cli/.gitignore", << >>)),
       F(<<"package.json">>, Json(
           [name        |-> o.projectName,
            version     |-> "1.0.0",
            description |-> o.projectName \o " - Command-line tool",
            main        |-> "src/cli.js",
            bin         |-> {<<o.projectName, "./src/cli.js">>},
            scripts     |-> [start |-> "node src/cli.js"],
            keywords    |-> <<"cli", "command-line", "tool">>,
            author      |-> AuthorOrEmpty(o.author),
            license     |-> "MIT"])) >>

GenerateFullstackTemplate(o, now) ==
    << D(<<"frontend">>),
       D(<<"frontend", "src">>),
       D(<<"frontend", "src", "components">>),
       D(<<"frontend", "src", "pages">>),
       D(<<"frontend", "src", "styles">>),
       D(<<"frontend", "src", "services">>),
       D(<<"frontend", "public">>),
       F(<<"frontend", "src", "App.js">>, Text("fullstack/frontend/src/App.js", <<o.projectName>>)),
       F(<<"frontend", "src", "services", "api.js">>,
         Text("fullstack/frontend/src/services/api.js", << >>)),
       F(<<"frontend", "src", "components", "Header.js">>,
         Text("fullstack/frontend/src/components/Header.js", <<o.projectName>>)),
       F(<<"frontend", "src", "pages", "UsersPage.js">>,
         Text("fullstack/frontend/src/pages/UsersPage.js", << >>)),
       F(<<"frontend", "public", "index.html">>,
         Text("fullstack/frontend/public/index.html", <<o.projectName>>)),
       F(<<"frontend", "src", "styles", "main.css">>,
         Text("fullstack/frontend/src/styles/main.css", <<o.projectName>>)),
       F(<<"frontend", "server.js">>, Text("fullstack/frontend/server.js", <<o.projectName>>)),
       F(<<"frontend", "package.json">>, Json(
           [name        |-> o.projectName \o "-frontend",
            version     |-> "1.0.0",
            description |-> o.projectName \o " - Frontend Application",
            main        |-> "server.js",
            scripts     |-> [dev |-> "node server.js", start |-> "node server.js"],
            keywords    |-> <<"frontend", "fullstack">>,
            author      |-> AuthorOrEmpty(o.author),
            license     |-> "MIT"])),
       D(<<"backend">>),
       D(<<"backend", "routes">>),
       D(<<"backend", "controllers">>),
       D(<<"backend", "models">>),
       D(<<"backend", "middleware">>),
       D(<<"backend", "config">>),
       F(<<"backend", "server.js">>, Text("fullstack/backend/server.js", <<o.projectName>>)),
       F(<<"backend", "routes", "index.js">>, Text("fullstack/backend/routes/index.js", << >>)),
       F(<<"backend", "controllers", "userController.js">>,
         Text("fullstack/backend/controllers/userController.js", << >>)),
       F(<<"backend", "models", "User.js">>, Text("fullstack/backend/models/User.js", << >>)),
       F(<<"backend", "config", "db.js">>, Text("fullstack/backend/config/db.js", <<o.projectName>>)),
       F(<<"backend", ".env">>, Text("fullstack/backend/.env", <<o.projectName>>)),
       F(<<"backend", "package.json">>, Json(
           [name        |-> o.projectName \o "-backend",
            version     |-> "1.0.0",
            description |-> o.projectName \o " - Backend API",
            main        |-> "server.js",
            scripts     |-> [dev |-> "node server.js", start |-> "node server.js"],
            keywords    |-> <<"backend", "api", "fullstack">>,
            author      |-> AuthorOrEmpty(o.author),
            license     |-> "MIT"])),
       F(<<"README.md">>,
         Text("fullstack/README.md", <<o.projectName, AuthorOrYourName(o.author)>>)),
       F(<<".gitignore">>, Text("fullstack/.gitignore", << >>)) >>

\* mutant: the switch has no case 'api'
GenerateWithoutApiCase(template, o, now) ==
    CASE template = "web"       -> GenerateWebTemplate(o, now)
      [] template = "cli"       -> GenerateCliTemplate(o, now)
      [] template = "fullstack" -> GenerateFullstackTemplate(o, now)
      [] OTHER                  -> GenerateBasicTemplate(o, now)

\* mutant: the default of the switch is the web template
GenerateDefaultWeb(template, o, now) ==
    CASE template = "basic"     -> GenerateBasicTemplate(o, now)
      [] template = "api"       -> GenerateApiTemplate(o, now)
      [] template = "cli"       -> GenerateCliTemplate(o, now)
      [] template = "fullstack" -> GenerateFullstackTemplate(o, now)
      [] OTHER                  -> GenerateWebTemplate(o, now)

\* the switch of generate(projectPath, template, options)
Generate(template, o, now) ==
    CASE template = "web"       -> GenerateWebTemplate(o, now)
      [] template = "api"       -> GenerateApiTemplate(o, now)
      [] template = "cli"       -> GenerateCliTemplate(o, now)
      [] template = "fullstack" -> GenerateFullstackTemplate(o, now)
      [] OTHER                  -> GenerateBasicTemplate(o, now)

-----------------------------------------------------------------------------
(* ProjectCLI *)

NoConfig ==
    [projectName |-> Undefined, template |-> Undefined, gitInit |-> FALSE,
     author |-> Undefined]

NoError == [kind |-> "none", detail |-> << >>]

\* no exit code yet: the process is running
NoExit == -1

NoPath == << >>

NoPrev == [config |-> NoConfig, exitCode |-> NoExit, failed |-> {}]

\* there is no second process
NoOther == [pc |-> "none"]

\* the outcomes of a system call that changes the filesystem or runs a command
Outcomes == {"ok", "error"}

\* mutant: only the first argument is looked at
HelpRequestedFirstOnly(a) ==
    Len(a) = 0 \/ (Len(a) > 0 /\ a[1] \in {"--help", "-h"})

\* args.length === 0 || args.includes('--help') || args.includes('-h')
HelpRequested(a) ==
    Len(a) = 0 \/ (\E i \in 1..Len(a) : a[i] = "--help") \/ (\E i \in 1..Len(a) : a[i] = "-h")

ValidTemplates == <<"web", "api", "cli", "basic", "fullstack">>

\* validTemplates.includes(template)
Includes(list, x) == \E i \in 1..Len(list) : list[i] = x

\* mutant: the name pattern is not checked
ValidateConfigNoNameCheck(c) ==
    IF ExistsSync(Join(cwd, <<c.projectName>>))
    THEN Thrown("DirectoryExists", <<c.projectName>>)
    ELSE IF ~Includes(ValidTemplates, c.template)
         THEN Thrown("UnknownTemplate", <<c.template>> \o ValidTemplates)
    ELSE Returned(c)

\* mutant: the target directory is not checked
ValidateConfigNoDirCheck(c) ==
    IF ~NameRegexTest(c.projectName) THEN Thrown("InvalidName", << >>)
    ELSE IF ~Includes(ValidTemplates, c.template)
         THEN Thrown("UnknownTemplate", <<c.template>> \o ValidTemplates)
    ELSE Returned(c)

\* mutant: the template is checked before the target directory
ValidateConfigTemplateFirst(c) ==
    IF ~NameRegexTest(c.projectName) THEN Thrown("InvalidName", << >>)
    ELSE IF ~Includes(ValidTemplates, c.template)
         THEN Thrown("UnknownTemplate", <<c.template>> \o ValidTemplates)
    ELSE IF ExistsSync(Join(cwd, <<c.projectName>>))
         THEN Thrown("DirectoryExists", <<c.projectName>>)
    ELSE Returned(c)

\* mutant: the template is not checked
ValidateConfigNoTemplateCheck(c) ==
    IF ~NameRegexTest(c.projectName) THEN Thrown("InvalidName", << >>)
    ELSE IF ExistsSync(Join(cwd, <<c.projectName>>))
         THEN Thrown("DirectoryExists", <<c.projectName>>)
    ELSE Returned(c)

\* validateConfig(config): what it throws, or that it returns
ValidateConfig(c) ==
    IF ~NameRegexTest(c.projectName) THEN Thrown("InvalidName", << >>)
    ELSE IF ExistsSync(Join(cwd, <<c.projectName>>))
         THEN Thrown("DirectoryExists", <<c.projectName>>)
    ELSE IF ~Includes(ValidTemplates, c.template)
         THEN Thrown("UnknownTemplate", <<c.template>> \o ValidTemplates)
    ELSE Returned(c)

\* run's catch block: logger.error, process.exit(1)
Catch(e) ==
    /\ out' = Append(out, ErrorMsg(e.kind))
    /\ err' = [kind |-> e.kind, detail |-> e.detail]
    /\ exitCode' = 1
    /\ pc' = "exit"

\* run, lines 22-25: showHelp and return
ShowHelp ==
    /\ pc = "start"
    /\ HelpRequested(args)
    /\ out' = Append(out, HelpText)
    /\ exitCode' = 0
    /\ pc' = "exit"
    /\ UNCHANGED <<args, config, cwd, dirs, files, step, savedCwd, execLog, err,
                   projectPath, start, prev, runs, other>>

\* run, line 28: this.parser.parse(args)
ParseArgs ==
    /\ pc = "start"
    /\ ~HelpRequested(args)
    /\ LET r == Parse(args) IN
         IF r.ok
         THEN /\ config' = r.config
              /\ pc' = "validate"
              /\ UNCHANGED <<out, err, exitCode>>
         ELSE /\ Catch(r)
              /\ UNCHANGED config
    /\ UNCHANGED <<args, cwd, dirs, files, step, savedCwd, execLog, projectPath,
                   start, prev, runs, other>>

\* run, line 31: this.validateConfig(config)
Validate ==
    /\ pc = "validate"
    /\ LET r == ValidateConfig(config) IN
         IF r.ok
         THEN /\ pc' = "createProject"
              /\ UNCHANGED <<out, err, exitCode>>
         ELSE Catch(r)
    /\ UNCHANGED <<args, config, cwd, dirs, files, step, savedCwd, execLog,
                   projectPath, start, prev, runs, other>>

\* createProject, lines 82-88: the info line and fs.mkdirSync(projectPath)
CreateProject ==
    /\ pc = "createProject"
    /\ LET path == Join(cwd, <<config.projectName>>) IN
       \E io \in Outcomes :
         IF io = "ok" /\ MkdirPossible(path)
         THEN /\ dirs' = MkdirSync(path)
              /\ projectPath' = path
              /\ out' = Append(out, Info("Creating project"))
              /\ step' = 0
              /\ pc' = "generate"
              /\ UNCHANGED <<err, exitCode>>
         ELSE /\ out' = Append(Append(out, Info("Creating project")),
                               ErrorMsg("FilesystemWriteFailure"))
              /\ err' = [kind |-> "FilesystemWriteFailure", detail |-> path]
              /\ exitCode' = 1
              /\ pc' = "exit"
              /\ UNCHANGED <<dirs, projectPath, step>>
    /\ UNCHANGED <<args, config, cwd, files, savedCwd, execLog, start, prev, runs, other>>

\* mutant: initGit is called whatever options.gitInit is
AfterGenerateAlwaysInitGit == "initGit"

\* where createProject goes after generate returns
AfterGenerate == IF config.gitInit THEN "initGit" ELSE "created"

\* mutant: what generate created is removed again when a call fails
GenerateFailureRollsBack(path) ==
    /\ Catch(Thrown("FilesystemWriteFailure", path))
    /\ dirs' = start.dirs
    /\ files' = start.files
    /\ UNCHANGED step

\* fs.mkdirSync or fs.writeFileSync throws inside generate: nothing catches
\* it before run's catch block
GenerateFailure(path) ==
    /\ Catch(Thrown("FilesystemWriteFailure", path))
    /\ UNCHANGED <<dirs, files, step>>

\* one createDir or writeFile call of generate (createProject, line 91)
GenerateStep ==
    /\ pc = "generate"
    /\ \E now \in Dates, io \in Outcomes :
         LET ops  == Generate(config.template,
                              [projectName |-> config.projectName,
                               author |-> config.author], now)
             o    == ops[step + 1]
             path == Join(projectPath, o.rel)
             done == /\ step' = step + 1
                     /\ pc' = IF step + 1 = Len(ops) THEN AfterGenerate ELSE "generate"
                     /\ UNCHANGED <<out, err, exitCode>>
             fail == GenerateFailure(path)
         IN  IF o.op = "createDir"
             THEN IF ExistsSync(path)
                  THEN done /\ UNCHANGED <<dirs, files>>
                  ELSE IF io = "ok" /\ MkdirPossible(path)
                       THEN done /\ dirs' = MkdirSync(path) /\ UNCHANGED files
                       ELSE fail
             ELSE IF io = "ok" /\ WritePossible(path)
                  THEN done /\ files' = WriteFileSync(path, o.content) /\ UNCHANGED dirs
                  ELSE fail
    /\ UNCHANGED <<args, config, cwd, savedCwd, execLog, projectPath, start, prev, runs, other>>

GitCommands == <<"git init", "git add .", "git commit -m \"Initial commit\"">>

\* mutant: initGit lets the error reach run's catch block
GitCatchRethrows == Catch(Thrown("VersionControlInitFailure", << >>))

\* mutant: the catch block is empty and the try block goes on to its end
GitCatchGoesOn ==
    /\ pc' = "gitDone"
    /\ UNCHANGED <<out, err, exitCode>>

\* initGit's catch block: only a warning, and initGit returns
GitCatch ==
    /\ out' = Append(out, Warning("Git initialization failed"))
    /\ pc' = "created"
    /\ UNCHANGED <<err, exitCode>>

\* initGit, lines 106-109: the info line, originalCwd, process.chdir(projectPath)
InitGit ==
    /\ pc = "initGit"
    /\ savedCwd' = cwd
    /\ IF projectPath \in dirs
       THEN /\ cwd' = projectPath
            /\ out' = Append(out, Info("Initializing Git repository..."))
            /\ step' = 0
            /\ pc' = "git"
       ELSE /\ out' = Append(Append(out, Info("Initializing Git repository...")),
                             Warning("Git initialization failed"))
            /\ pc' = "created"
            /\ UNCHANGED <<cwd, step>>
    /\ UNCHANGED <<args, config, dirs, files, execLog, exitCode, err, projectPath,
                   start, prev, runs, other>>

\* a command handed to execSync, where it ran and how it ended
Command(cmd, status) == [cmd |-> cmd, cwd |-> cwd, status |-> status]

\* initGit, lines 111-113: one execSync call
ExecSync ==
    /\ pc = "git"
    /\ \E io \in Outcomes :
         IF io = "ok"
         THEN /\ execLog' = Append(execLog, Command(GitCommands[step + 1], "ok"))
              /\ step' = step + 1
              /\ pc' = IF step + 1 = Len(GitCommands) THEN "gitDone" ELSE "git"
              /\ UNCHANGED <<out, err, exitCode>>
         ELSE /\ execLog' = Append(execLog, Command(GitCommands[step + 1], "error"))
              /\ GitCatch
              /\ UNCHANGED step
    /\ UNCHANGED <<args, config, cwd, dirs, files, savedCwd, projectPath, start,
                   prev, runs, other>>

\* initGit, lines 115-117: process.chdir(originalCwd) and the success line
InitGitDone ==
    /\ pc = "gitDone"
    /\ cwd' = savedCwd
    /\ out' = Append(out, Success("Git repository initialized"))
    /\ pc' = "created"
    /\ UNCHANGED <<args, config, dirs, files, step, savedCwd, execLog, exitCode, err,
                   projectPath, start, prev, runs, other>>

\* createProject, line 98
ProjectCreated ==
    /\ pc = "created"
    /\ out' = Append(out, Success("Project structure created"))
    /\ pc' = "success"
    /\ UNCHANGED <<args, config, cwd, dirs, files, step, savedCwd, execLog, exitCode,
                   err, projectPath, start, prev, runs, other>>

\* run, lines 36-45, and the normal end of the process
PrintSuccess ==
    /\ pc = "success"
    /\ out' = out \o <<Success("created successfully"), Info("Next steps:"), Info("cd")>>
                  \o (IF config.template = "web" \/ config.template = "api"
                      THEN <<Info("npm install"), Info("npm start")>>
                      ELSE <<Info("Start coding!")>>)
    /\ exitCode' = 0
    /\ pc' = "exit"
    /\ UNCHANGED <<args, config, cwd, dirs, files, step, savedCwd, execLog, err,
                   projectPath, start, prev, runs, other>>

\* the argument lists of at most n tokens
ArgLists(n) == UNION {[1..k -> Tokens] : k \in 0..n}

\* a fresh process: new ProjectCLI(), with its arguments, in the initial cwd
Process(a) ==
    /\ args = a
    /\ pc = "start"
    /\ config = NoConfig
    /\ cwd = InitialCwd
    /\ step = 0
    /\ savedCwd = NoPath
    /\ out = << >>
    /\ execLog = << >>
    /\ exitCode = NoExit
    /\ err = NoError
    /\ projectPath = NoPath

\* directories that may exist under the working directory before the first run
PreExisting == {"app", "x@y"}

Init ==
    /\ \E a \in ArgLists(MaxArgs) : Process(a)
    /\ \E pre \in SUBSET PreExisting :
         dirs = {InitialCwd} \cup {Join(InitialCwd, <<n>>) : n \in pre}
    /\ files = << >>
    /\ start = [dirs |-> dirs, files |-> files]
    /\ prev = NoPrev
    /\ runs = 1
    /\ other = NoOther

Next ==
    \/ ShowHelp
    \/ ParseArgs
    \/ Validate
    \/ CreateProject
    \/ GenerateStep
    \/ InitGit
    \/ ExecSync
    \/ InitGitDone
    \/ ProjectCreated
    \/ PrintSuccess

Spec == Init /\ [][Next]_vars

-----------------------------------------------------------------------------
(* Two processes one after the other on the same filesystem *)

\* the command lines given when the tool is run several times in a row
CommandLines ==
    { <<"app">>,
      <<"app", "-g">>,
      <<"app", "-t", "web">>,
      <<"app", "-t", "fullstack">>,
      <<"app", "--template", "app">>,
      <<"app", "-a">>,
      <<"web", "--author", "app">>,
      <<"x@y">>,
      <<"--help">> }

\* the project name of a run that ended by a failure inside generate, after
\* createProject had made the project directory
FailedPartway ==
    IF err.kind = "FilesystemWriteFailure" /\ projectPath # NoPath
    THEN {config.projectName}
    ELSE {}

\* index.js, lines 174-175, run again once the previous process has exited
Exec ==
    /\ pc = "exit"
    /\ runs < MaxRuns
    /\ \E a \in CommandLines : args' = a
    /\ pc' = "start"
    /\ config' = NoConfig
    /\ cwd' = InitialCwd
    /\ step' = 0
    /\ savedCwd' = NoPath
    /\ out' = << >>
    /\ execLog' = << >>
    /\ exitCode' = NoExit
    /\ err' = NoError
    /\ projectPath' = NoPath
    /\ start' = [dirs |-> dirs, files |-> files]
    /\ prev' = [config |-> config, exitCode |-> exitCode,
                failed |-> prev.failed \cup FailedPartway]
    /\ runs' = runs + 1
    /\ UNCHANGED <<dirs, files, other>>

InitTwice ==
    /\ \E a \in CommandLines : Process(a)
    /\ dirs = {InitialCwd}
    /\ files = << >>
    /\ start = [dirs |-> dirs, files |-> files]
    /\ prev = NoPrev
    /\ runs = 1
    /\ other = NoOther

NextTwice ==
    \/ Next
    \/ Exec

SpecTwice == InitTwice /\ [][NextTwice]_vars

-----------------------------------------------------------------------------
(* The argument parser on longer argument lists: run up to the end of        *)
(* this.parser.parse(args)                                                   *)

\* the tokens of the longer argument lists
ParseTokens ==
    {"app", "web", "Api", "--template", "-t", "--git", "-g", "--author", "-a"}

InitParse ==
    /\ \E a \in UNION {[1..k -> ParseTokens] : k \in 0..MaxParseArgs} : Process(a)
    /\ dirs = {InitialCwd}
    /\ files = << >>
    /\ start = [dirs |-> dirs, files |-> files]
    /\ prev = NoPrev
    /\ runs = 1
    /\ other = NoOther

NextParse == ParseArgs

SpecParse == InitParse /\ [][NextParse]_vars

-----------------------------------------------------------------------------
(* generate(projectPath, template, options) called directly, as a library    *)
(* user can: nothing has validated the template                              *)

\* the template values of the direct calls
DirectTemplates == {"basic", "web", "Api", "x@y", "", Undefined}

InitGenerate ==
    /\ \E t \in DirectTemplates, n \in {"app", "web"}, a \in {"", "x@y"} :
          config = [projectName |-> n, template |-> t, gitInit |-> FALSE, author |-> a]
    /\ projectPath = Join(InitialCwd, <<config.projectName>>)
    /\ \E pre \in SUBSET {projectPath, projectPath \o <<"src">>} :
          dirs = {InitialCwd} \cup UNION {Prefixes(p) : p \in pre}
    /\ files = << >>
    /\ args = << >>
    /\ pc = "generate"
    /\ step = 0
    /\ cwd = InitialCwd
    /\ savedCwd = NoPath
    /\ out = << >>
    /\ execLog = << >>
    /\ exitCode = NoExit
    /\ err = NoError
    /\ start = [dirs |-> dirs, files |-> files]
    /\ prev = NoPrev
    /\ runs = 1
    /\ other = NoOther

NextGenerate == GenerateStep

SpecGenerate == InitGenerate /\ [][NextGenerate]_vars

-----------------------------------------------------------------------------
(* Two processes started together on the same filesystem, their steps       *)
(* interleaved by the operating system                                      *)

\* the command lines of the two processes: the same project name
ConcurrentCommandLines ==
    { <<"app">>,
      <<"app", "-t", "web">>,
      <<"app", "-g">>,
      <<"app", "--help">> }

\* the state of its own a process has
Local ==
    [args |-> args, pc |-> pc, config |-> config, cwd |-> cwd, step |-> step,
     savedCwd |-> savedCwd, out |-> out, execLog |-> execLog,
     exitCode |-> exitCode, err |-> err, projectPath |-> projectPath]

\* a process that has not made a step yet
FreshProcess(a) ==
    [args |-> a, pc |-> "start", config |-> NoConfig, cwd |-> InitialCwd,
     step |-> 0, savedCwd |-> NoPath, out |-> << >>, execLog |-> << >>,
     exitCode |-> NoExit, err |-> NoError, projectPath |-> NoPath]

\* the operating system runs the other process from here on
Switch ==
    /\ other # NoOther
    /\ other.pc # "exit"
    /\ args' = other.args
    /\ pc' = other.pc
    /\ config' = other.config
    /\ cwd' = other.cwd
    /\ step' = other.step
    /\ savedCwd' = other.savedCwd
    /\ out' = other.out
    /\ execLog' = other.execLog
    /\ exitCode' = other.exitCode
    /\ err' = other.err
    /\ projectPath' = other.projectPath
    /\ other' = Local
    /\ UNCHANGED <<dirs, files, start, prev, runs>>

InitBoth ==
    /\ \E a \in ConcurrentCommandLines : Process(a)
    /\ \E b \in ConcurrentCommandLines : other = FreshProcess(b)
    /\ dirs = {InitialCwd}
    /\ files = << >>
    /\ start = [dirs |-> dirs, files |-> files]
    /\ prev = NoPrev
    /\ runs = 1

NextBoth ==
    \/ Next
    \/ Switch

SpecBoth == InitBoth /\ [][NextBoth]_vars

-----------------------------------------------------------------------------
(* Vocabulary of the properties *)

\* the string has a character outside [A-Za-z0-9_-]
HasCharOutsideNamePattern(s) ==
    LET c == Chars(s) IN \E i \in 1..Len(c) : c[i] \notin NameChars

\* --help or -h at some position, or no argument at all
HelpAnywhere(a) ==
    a = << >> \/ \E i \in 1..Len(a) : a[i] \in {"--help", "-h"}

\* the process has not touched the filesystem since it started
FilesystemUntouched == dirs = start.dirs /\ files = start.files

\* the target directory <cwd>/<projectName> existed when the process started
TargetExisted ==
    LET target == InitialCwd \o <<config.projectName>>
    IN  target \in start.dirs \/ target \in DOMAIN start.files

FiveTemplates == {"basic", "web", "api", "cli", "fullstack"}

Logged(m) == \E i \in 1..Len(out) : out[i] = m

\* the paths below the project directory, relative to it
ProjectRel(paths) ==
    LET n == Len(projectPath)
    IN  {SubSeq(p, n + 1, Len(p)) :
           p \in {q \in paths : Len(q) > n /\ SubSeq(q, 1, n) = projectPath}}

\* generate has returned in this run
GenerateReturned ==
    \/ pc \in {"initGit", "git", "gitDone", "created", "success"}
    \/ pc = "exit" /\ exitCode = 0 /\ config # NoConfig

\* the directories of the specification's table of templates (section 4.3)
TableDirs(t) ==
    CASE t = "basic" -> {<<"src">>, <<"utils">>, <<"tests">>}
      [] t = "web"   -> {<<"src">>, <<"src", "css">>, <<"src", "js">>, <<"public">>,
                         <<"assets">>}
      [] t = "api"   -> {<<"src">>, <<"src", "routes">>, <<"src", "controllers">>,
                         <<"src", "models">>, <<"src", "middleware">>, <<"utils">>,
                         <<"config">>}
      [] t = "cli"   -> {<<"src">>, <<"utils">>, <<"commands">>}
      [] t = "fullstack" ->
            {<<"frontend">>, <<"frontend", "src">>, <<"frontend", "src", "components">>,
             <<"frontend", "src", "pages">>, <<"frontend", "src", "styles">>,
             <<"frontend", "src", "services">>, <<"frontend", "public">>,
             <<"backend">>, <<"backend", "routes">>, <<"backend", "controllers">>,
             <<"backend", "models">>, <<"backend", "middleware">>,
             <<"backend", "config">>}

\* the files of the specification's table of templates (section 4.3)
TableFiles(t) ==
    CASE t = "basic" -> {<<"src", "index.js">>, <<"utils", "helpers.js">>,
                         <<"package.json">>, <<".gitignore">>, <<"README.md">>}
      [] t = "web"   -> {<<"src", "index.html">>, <<"src", "css", "style.css">>,
                         <<"src", "js", "app.js">>, <<"package.json">>,
                         <<".gitignore">>, <<"README.md">>}
      [] t = "api"   -> {<<"src", "server.js">>, <<"src", "routes", "index.js">>,
                         <<"src", "controllers", "index.js">>, <<"config", "config.js">>,
                         <<"package.json">>, <<".gitignore">>, <<"README.md">>}
      [] t = "cli"   -> {<<"src", "cli.js">>, <<"commands", "index.js">>,
                         <<"package.json">>, <<".gitignore">>, <<"README.md">>}
      [] t = "fullstack" ->
            {<<"frontend", "package.json">>, <<"backend", "package.json">>,
             <<"frontend", "src", "App.js">>, <<"frontend", "src", "services", "api.js">>,
             <<"frontend", "src", "components", "Header.js">>,
             <<"frontend", "src", "pages", "UsersPage.js">>,
             <<"frontend", "server.js">>, <<"frontend", "src", "styles", "main.css">>,
             <<"frontend", "public", "index.html">>,
             <<"backend", "server.js">>, <<"backend", "routes", "index.js">>,
             <<"backend", "controllers", "userController.js">>,
             <<"backend", "models", "User.js">>, <<"backend", "config", "db.js">>,
             <<"backend", ".env">>, <<"README.md">>, <<".gitignore">>}

\* the flags that take a value, and the name the error message gives them
ValueFlags == {"--template", "-t", "--author", "-a"}

FlagName(f) == IF f \in {"--template", "-t"} THEN "--template" ELSE "--author"

\* the flag at i is the last token or is followed by a token beginning with '-'
Dangling(a, i) ==
    a[i] \in ValueFlags /\ (i = Len(a) \/ StartsWithDash(a[i + 1]))

\* the flag at i is dangling or is followed by the empty token
Valueless(a, i) ==
    a[i] \in ValueFlags /\ (i = Len(a) \/ a[i + 1] = "" \/ StartsWithDash(a[i + 1]))

\* the first token not beginning with '-' is at i
FirstNonFlagAt(a, i) ==
    /\ i \in 1..Len(a)
    /\ ~StartsWithDash(a[i])
    /\ \A j \in 1..(i - 1) : StartsWithDash(a[j])

\* every token is a flag or the value right after a flag that takes one, and
\* every flag that takes a value has one
OnlyFlagsAndValues(a) ==
    /\ Len(a) > 0
    /\ \A i \in 1..Len(a) :
         /\ StartsWithDash(a[i]) \/ (i > 1 /\ a[i - 1] \in ValueFlags)
         /\ a[i] \in ValueFlags => ~Valueless(a, i)

\* some command handed to execSync failed
GitFailed == \E i \in 1..Len(execLog) : execLog[i].status = "error"

\* every directory and file of the template exists in the project directory
GeneratedInPlace ==
    LET ops == Generate(config.template,
                        [projectName |-> config.projectName,
                         author |-> config.author], "1/1/2026")
    IN  \A k \in 1..Len(ops) :
          IF ops[k].op = "createDir"
          THEN projectPath \o ops[k].rel \in dirs
          ELSE projectPath \o ops[k].rel \in DOMAIN files

\* the createDir and writeFile calls of the running generate call
Ops ==
    Generate(config.template,
             [projectName |-> config.projectName, author |-> config.author], "1/1/2026")

\* the call generate is about to make
CurrentOp == Ops[step + 1]

\* the call generate is about to make has had its effect in the next state
CurrentOpDone ==
    LET path == projectPath \o CurrentOp.rel
    IN  IF CurrentOp.op = "createDir"
        THEN path \in dirs'
        ELSE path \in DOMAIN files' /\ files'[path].kind = CurrentOp.content.kind

\* the run ends with the error line of a failed filesystem call and exit code 1
EndsWithWriteFailure ==
    /\ pc' = "exit"
    /\ exitCode' = 1
    /\ err'.kind = "FilesystemWriteFailure"
    /\ out'[Len(out')] = ErrorMsg("FilesystemWriteFailure")

-----------------------------------------------------------------------------
(* Properties of a single run (specification Spec) *)

\* C1: a run whose parsed project name has a character outside [A-Za-z0-9_-]
\* never creates or changes a directory or a file, and it ends with the
\* InvalidName error and exit code 1.
InvalidNameFailsBeforeAnyWrite ==
    (config # NoConfig /\ HasCharOutsideNamePattern(config.projectName)) =>
        /\ FilesystemUntouched
        /\ pc \in {"validate", "exit"}
        /\ pc = "exit" => (err.kind = "InvalidName" /\ exitCode = 1)

InvalidNameRejected ==
    /\ pc = "exit"
    /\ config.projectName = "x@y"
    /\ err.kind = "InvalidName"
    /\ exitCode = 1

\* C3: with --help or -h anywhere in the arguments, or with no arguments, the
\* run only prints the help and exits with code 0: nothing is parsed or
\* validated and the filesystem, the cwd and the shell are not touched.
HelpShortCircuits ==
    HelpAnywhere(args) =>
        /\ pc \in {"start", "exit"}
        /\ config = NoConfig
        /\ err = NoError
        /\ FilesystemUntouched
        /\ cwd = InitialCwd
        /\ execLog = << >>
        /\ pc = "start" => (out = << >> /\ exitCode = NoExit)
        /\ pc = "exit" => (out = <<HelpText>> /\ exitCode = 0)

HelpAfterInvalidNameAndDanglingFlag ==
    /\ pc = "exit"
    /\ args = <<"x@y", "-t", "--help">>
    /\ exitCode = 0

\* C4: validation reports the first failing check in the order name pattern,
\* directory existence, template membership.
ValidationOrder ==
    (pc = "exit" /\ config # NoConfig) =>
        LET nameBad     == HasCharOutsideNamePattern(config.projectName)
            templateBad == config.template \notin FiveTemplates
        IN  /\ nameBad => err.kind = "InvalidName"
            /\ (~nameBad /\ TargetExisted) => err.kind = "DirectoryExists"
            /\ (~nameBad /\ ~TargetExisted /\ templateBad) => err.kind = "UnknownTemplate"
            /\ (nameBad \/ TargetExisted \/ templateBad) => exitCode = 1

InvalidNameWinsOverAll ==
    /\ pc = "exit"
    /\ config # NoConfig
    /\ HasCharOutsideNamePattern(config.projectName)
    /\ TargetExisted
    /\ config.template \notin FiveTemplates
    /\ err.kind = "InvalidName"

\* C5: once generate has returned, the project directory holds exactly the
\* directories and files the specification's table lists for the template.
GenerateProducesExactlyTheTable ==
    GenerateReturned =>
        /\ config.template \in FiveTemplates
        /\ ProjectRel(dirs) = TableDirs(config.template)
        /\ ProjectRel(DOMAIN files) = TableFiles(config.template)

ApiProjectGenerated ==
    /\ pc = "exit"
    /\ exitCode = 0
    /\ config.template = "api"
    /\ projectPath \o <<"src", "middleware">> \in dirs

OnlyFlagsShowsHelp ==
    (OnlyFlagsAndValues(args) /\ pc = "exit") =>
        /\ Logged(HelpText) \/ err.kind = "MissingProjectName"
        /\ FilesystemUntouched

\* C8 (as claimed): whenever a flag that takes a value is the last token or
\* is followed by a token beginning with '-', the run fails with
\* MissingFlagValue naming that flag.
EveryDanglingFlagIsNamed ==
    pc = "exit" =>
        \A i \in 1..Len(args) :
            Dangling(args, i) =>
                /\ err.kind = "MissingFlagValue"
                /\ err.detail = <<FlagName(args[i])>>
                /\ exitCode = 1

\* C8 (amended): without --help/-h and with a non-empty first token not
\* beginning with '-', the run fails with MissingFlagValue naming the first
\* flag that is the last token or is followed by an empty token or by a
\* token beginning with '-'.
FirstValuelessFlagIsNamed ==
    (pc = "exit" /\ ~HelpAnywhere(args)
       /\ \E n \in 1..Len(args) : FirstNonFlagAt(args, n) /\ args[n] # "") =>
        \A i \in 1..Len(args) :
            (Valueless(args, i) /\ \A j \in 1..(i - 1) : ~Valueless(args, j)) =>
                /\ err.kind = "MissingFlagValue"
                /\ err.detail = <<FlagName(args[i])>>
                /\ exitCode = 1
                /\ config = NoConfig

AuthorNamedBeforeTemplate ==
    /\ pc = "exit"
    /\ args = <<"app", "-a", "-t">>
    /\ err.kind = "MissingFlagValue"
    /\ err.detail = <<"--author">>

\* C9 (as claimed): the cwd is the project directory while the git commands
\* run, and it is the cwd of initGit's entry once initGit has returned.
CwdRestoredAfterInitGit ==
    /\ pc \in {"git", "gitDone"} => cwd = projectPath
    /\ (savedCwd # NoPath /\ pc \in {"created", "success", "exit"}) => cwd = savedCwd

\* C10: after a failed git command there is exactly one warning and no error,
\* the run goes on to the success message and exit code 0, and everything
\* generate wrote is still in place.
GitFailureIsOnlyAWarning ==
    GitFailed =>
        /\ err = NoError
        /\ exitCode # 1
        /\ \A i \in 1..Len(out) : out[i].level # "error"
        /\ Cardinality({i \in 1..Len(out) : out[i].level = "warning"}) = 1
        /\ pc \in {"created", "success", "exit"}
        /\ pc = "exit" => (exitCode = 0 /\ Logged(Success("created successfully")))
        /\ GeneratedInPlace

SuccessAfterGitFailure ==
    /\ GitFailed
    /\ pc = "exit"
    /\ exitCode = 0
    /\ Logged(Warning("Git initialization failed"))

\* the positions a step may hand over to when it does not fail
NextSteps(p) ==
    CASE p = "start"         -> {"validate"}
      [] p = "validate"      -> {"createProject"}
      [] p = "createProject" -> {"generate"}
      [] p = "generate"      -> {"generate"} \cup
                                (IF config.gitInit THEN {"initGit"} ELSE {"created"})
      [] p = "initGit"       -> {"git", "created"}
      [] p = "git"           -> {"git", "gitDone", "created"}
      [] p = "gitDone"       -> {"created"}
      [] p = "created"       -> {"success"}
      [] p = "success"       -> {"exit"}
      [] OTHER               -> {}

\* the steps whose failure ends the run: Parse, Validate, CreateDirectory,
\* GenerateFiles
FailingSteps == {"start", "validate", "createProject", "generate"}

\* C11: a non-help run goes through Parse, Validate, CreateDirectory,
\* GenerateFiles, InitVersionControl (only with gitInit) and PrintSuccess in
\* that order, none skipped or repeated; a failure of one of the first four
\* goes straight to the error line and exit code 1; exit code 0 comes only
\* from PrintSuccess or from the help.
RunFollowsTheSteps ==
    [][ \/ /\ pc = "start" /\ HelpAnywhere(args)
           /\ pc' = "exit" /\ exitCode' = 0 /\ out' = <<HelpText>>
        \/ /\ ~(pc = "start" /\ HelpAnywhere(args))
           /\ pc' \in NextSteps(pc)
           /\ err' = NoError
           /\ \A i \in 1..Len(out') : out'[i].level # "error"
           /\ exitCode' = IF pc = "success" THEN 0 ELSE NoExit
           /\ pc = "success" => Logged(Success("Project structure created"))
        \/ /\ pc \in FailingSteps
           /\ ~HelpAnywhere(args)
           /\ pc' = "exit" /\ exitCode' = 1
           /\ err'.kind # "none"
           /\ out'[Len(out')] = ErrorMsg(err'.kind)
           /\ dirs' = dirs /\ files' = files /\ execLog' = execLog
      ]_vars

RunThroughAllSteps ==
    /\ pc = "exit"
    /\ exitCode = 0
    /\ config.gitInit
    /\ Len(execLog) = 3
    /\ Logged(Success("Git repository initialized"))
    /\ GeneratedInPlace

\* C12 (as claimed): in a generate call no directory is created once a file
\* has been written, and a call of generate either has its effect or ends
\* the run with the filesystem error.
AllDirsBeforeAllFiles ==
    [][ pc = "generate" =>
          /\ dirs' # dirs => ProjectRel(DOMAIN files) = {}
          /\ (step' = step + 1 /\ CurrentOpDone /\ err' = NoError) \/ EndsWithWriteFailure
      ]_vars

\* C12 (amended): basic, web, api and cli create all their directories before
\* their first file; fullstack creates the frontend directories, writes the
\* frontend files, creates the backend directories, then writes the other
\* files; every file is written into a directory created before it; a failed
\* filesystem call ends the run with the error instead of being skipped.
DirsBeforeTheirFiles ==
    [][ pc = "generate" =>
          /\ (dirs' # dirs /\ ProjectRel(DOMAIN files) # {}) =>
                /\ config.template = "fullstack"
                /\ \A f \in ProjectRel(DOMAIN files) : f[1] = "frontend"
                /\ \A d \in ProjectRel(dirs' \ dirs) : d[1] = "backend"
          /\ (dirs' # dirs /\ config.template = "fullstack"
                /\ \E d \in ProjectRel(dirs' \ dirs) : d[1] = "frontend") =>
                ProjectRel(DOMAIN files) = {}
          /\ CurrentOp.op = "writeFile" =>
                Parent(projectPath \o CurrentOp.rel) \in dirs
          /\ (step' = step + 1 /\ CurrentOpDone /\ err' = NoError) \/ EndsWithWriteFailure
      ]_vars

BackendDirsAfterFrontendFiles ==
    /\ pc = "generate"
    /\ config.template = "fullstack"
    /\ projectPath \o <<"frontend", "package.json">> \in DOMAIN files
    /\ projectPath \o <<"backend", "config">> \in dirs

\* C13: when a call of generate fails partway, the run ends with the error
\* line and exit code 1, and the project directory and everything generate
\* created before the failing call are still there, as is everything that
\* existed before the run.
NothingRolledBack ==
    (pc = "exit" /\ err.kind = "FilesystemWriteFailure" /\ projectPath # NoPath) =>
        /\ exitCode = 1
        /\ out[Len(out)] = ErrorMsg("FilesystemWriteFailure")
        /\ ~Logged(Success("created successfully"))
        /\ step < Len(Ops)
        /\ projectPath \in dirs
        /\ \A k \in 1..step :
              IF Ops[k].op = "createDir"
              THEN projectPath \o Ops[k].rel \in dirs
              ELSE projectPath \o Ops[k].rel \in DOMAIN files
        /\ start.dirs \subseteq dirs
        /\ DOMAIN start.files \subseteq DOMAIN files

WriteFailedAfterFirstFiles ==
    /\ pc = "exit"
    /\ err.kind = "FilesystemWriteFailure"
    /\ exitCode = 1
    /\ projectPath # NoPath
    /\ Ops[step + 1].op = "writeFile"
    /\ projectPath \o <<"src", "index.js">> \in DOMAIN files
    /\ projectPath \o <<"utils", "helpers.js">> \in DOMAIN files

\* the manifests (package.json files) that exist
Manifests == {p \in DOMAIN files : files[p].kind = "json"}

\* the path, relative to the project directory, of the file at p
RelOf(p) == SubSeq(p, Len(projectPath) + 1, Len(p))

\* C14 (as claimed): every manifest has the project name as name, version
\* 1.0.0, license MIT and the configured author.
EveryManifestNamedAfterProject ==
    \A p \in Manifests :
        /\ files[p].value.name = config.projectName
        /\ files[p].value.version = "1.0.0"
        /\ files[p].value.license = "MIT"
        /\ files[p].value.author = config.author

\* C14 (amended): the manifest of basic, web, api and cli is named after the
\* project; the two manifests of fullstack are named <projectName>-frontend
\* and <projectName>-backend; every manifest has version 1.0.0, license MIT
\* and the configured author; every template writes its manifests.
ManifestsNamedAfterProjectOrPart ==
    /\ \A p \in Manifests :
          /\ files[p].value.name =
                IF config.template # "fullstack" THEN config.projectName
                ELSE IF RelOf(p)[1] = "frontend" THEN config.projectName \o "-frontend"
                ELSE config.projectName \o "-backend"
          /\ RelOf(p) \in
                IF config.template # "fullstack" THEN {<<"package.json">>}
                ELSE {<<"frontend", "package.json">>, <<"backend", "package.json">>}
          /\ files[p].value.version = "1.0.0"
          /\ files[p].value.license = "MIT"
          /\ files[p].value.author = config.author
    /\ GenerateReturned =>
          Cardinality(Manifests) = IF config.template = "fullstack" THEN 2 ELSE 1

FullstackManifestsWritten ==
    /\ pc = "exit"
    /\ exitCode = 0
    /\ config.template = "fullstack"
    /\ files[projectPath \o <<"frontend", "package.json">>].value.name = "app-frontend"
    /\ files[projectPath \o <<"backend", "package.json">>].value.name = "app-backend"

\* C15: the manifest of template cli has a bin mapping with exactly one
\* key, the project name, whose value is the path of the CLI entry file the
\* template writes; the manifests of the other templates have no bin mapping.
CliManifestHasBinForProject ==
    /\ \A p \in Manifests :
          IF config.template = "cli"
          THEN /\ "bin" \in DOMAIN files[p].value
               /\ Cardinality(files[p].value.bin) = 1
               /\ files[p].value.bin = {<<config.projectName, "./src/cli.js">>}
               /\ projectPath \o <<"src", "cli.js">> \in DOMAIN files
          ELSE "bin" \notin DOMAIN files[p].value
    /\ (GenerateReturned /\ config.template = "cli") =>
          projectPath \o <<"package.json">> \in Manifests

CliProjectGenerated ==
    /\ pc = "exit"
    /\ exitCode = 0
    /\ config.template = "cli"
    /\ config.projectName = "app"
    /\ files[projectPath \o <<"package.json">>].value.bin = {<<"app", "./src/cli.js">>}

\* the project root <cwd>/<projectName> of the running process
ProjectRoot == InitialCwd \o <<config.projectName>>

\* the path is strictly below the directory
Below(p, dir) == Len(p) > Len(dir) /\ SubSeq(p, 1, Len(dir)) = dir

\* C16: while generate runs, the project name has passed the name pattern,
\* the path of the call about to be made does not exist yet and differs from
\* the path of every earlier call; at all times everything the run has
\* created lies in the project root <cwd>/<projectName>, and nothing that
\* existed before the run is changed or removed.
GenerateStaysInsideProjectRoot ==
    /\ pc = "generate" =>
          LET ops == Ops
          IN  /\ NameRegexTest(config.projectName)
              /\ projectPath = ProjectRoot
              /\ ~ExistsSync(projectPath \o ops[step + 1].rel)
              /\ \A k \in 1..step : ops[k].rel # ops[step + 1].rel
              /\ \A p \in start.dirs : ~Below(p, ProjectRoot)
    /\ \A p \in dirs \ start.dirs : p = ProjectRoot \/ Below(p, ProjectRoot)
    /\ \A p \in DOMAIN files :
          p \in DOMAIN start.files \/ Below(p, ProjectRoot)
    /\ start.dirs \subseteq dirs
    /\ \A p \in DOMAIN start.files : p \in DOMAIN files /\ files[p] = start.files[p]

GeneratedNextToOtherProject ==
    /\ pc = "exit"
    /\ exitCode = 0
    /\ InitialCwd \o <<"app">> \in start.dirs
    /\ config.projectName = "web"
    /\ GeneratedInPlace
    /\ \A p \in DOMAIN files : Below(p, ProjectRoot)

\* the positions of the argument list that hold one of the flags
Positions(a, flags) == {i \in 1..Len(a) : a[i] \in flags}

\* the token after the last of the flags in the argument list
ValueOfLast(a, flags) ==
    LET at == Positions(a, flags)
    IN  a[(CHOOSE i \in at : \A j \in at : j <= i) + 1]

UpperCaseChars == {"A"}

\* u is v with every upper-case letter replaced by its lower-case letter
IsLowerCaseOf(u, v) ==
    LET cu == Chars(u)
        cv == Chars(v)
    IN  /\ Len(cu) = Len(cv)
        /\ \A i \in 1..Len(cv) :
              /\ cu[i] \notin UpperCaseChars
              /\ cv[i] \notin UpperCaseChars => cu[i] = cv[i]
              /\ cv[i] = "A" => cu[i] = "a"

\* C17: a parsed configuration has as template the lower-cased token after
\* (the last) --template/-t and "basic" without that flag, as author the
\* token after (the last) --author/-a as given and "" without that flag, and
\* gitInit true exactly when --git or -g is in the argument list.
ParsedFlagsMatchArguments ==
    config # NoConfig =>
        /\ IF Positions(args, {"--template", "-t"}) = {}
           THEN config.template = "basic"
           ELSE IsLowerCaseOf(config.template, ValueOfLast(args, {"--template", "-t"}))
        /\ IF Positions(args, {"--author", "-a"}) = {}
           THEN config.author = ""
           ELSE config.author = ValueOfLast(args, {"--author", "-a"})
        /\ config.gitInit <=> (Positions(args, {"--git", "-g"}) # {})

UpperCaseTemplateLowered ==
    /\ pc = "exit"
    /\ exitCode = 0
    /\ args = <<"app", "--template", "Api">>
    /\ config.template = "api"
    /\ config.author = ""
    /\ ~config.gitInit

\* the flags the parser's switch has a case for
RecognizedFlags == {"--template", "-t", "--git", "-g", "--author", "-a"}

\* the token begins with '-' and the parser has no case for it
UnknownFlag(t) == StartsWithDash(t) /\ t \notin RecognizedFlags

\* the argument list without its token at position k
RemoveAt(a, k) == SubSeq(a, 1, k - 1) \o SubSeq(a, k + 1, Len(a))

\* the run has parsed its arguments with the result parsing the list b gives:
\* the same configuration, or the same error
ParsedLike(b) ==
    LET r == Parse(b)
    IN  IF r.ok
        THEN config = r.config
        ELSE /\ config = NoConfig
             /\ pc = "exit"
             /\ exitCode = 1
             /\ err = [kind |-> r.kind, detail |-> r.detail]

\* C18 (as claimed): an unknown flag at any position of the argument list
\* changes nothing: the run parses the list as it would without that token.
UnknownFlagAnywhereIsIgnored ==
    (pc # "start" /\ ~HelpAnywhere(args)) =>
        \A k \in 1..Len(args) :
            UnknownFlag(args[k]) => ParsedLike(RemoveAt(args, k))

\* C18 (amended): an unknown flag at any position other than right after
\* --template, -t, --author or -a changes nothing: the run parses the list as
\* it would without that token, to the same configuration or the same error.
UnknownFlagNotInValuePlaceIsIgnored ==
    (pc # "start" /\ ~HelpAnywhere(args)) =>
        \A k \in 1..Len(args) :
            (UnknownFlag(args[k]) /\ (k = 1 \/ args[k - 1] \notin ValueFlags)) =>
                ParsedLike(RemoveAt(args, k))

UnknownFlagBetweenNameAndGit ==
    /\ pc = "validate"
    /\ args = <<"app", "-x", "--git">>
    /\ config = [projectName |-> "app", template |-> "basic", gitInit |-> TRUE,
                 author |-> ""]

\* the token given after --template/-t is, lower-cased, none of the five
\* template names
TemplateValueUnknown ==
    /\ Positions(args, {"--template", "-t"}) # {}
    /\ \A t \in FiveTemplates :
          ~IsLowerCaseOf(t, ValueOfLast(args, {"--template", "-t"}))

\* C19: a run with a valid project name, no existing target directory and a
\* template value that is, lower-cased, none of the five names creates
\* nothing and ends with UnknownTemplate, a message that gives the value and
\* lists the five valid templates, and exit code 1.
UnknownTemplateIsRejected ==
    (config # NoConfig /\ TemplateValueUnknown
       /\ ~HasCharOutsideNamePattern(config.projectName) /\ ~TargetExisted) =>
        /\ pc \in {"validate", "exit"}
        /\ FilesystemUntouched
        /\ pc = "exit" =>
              /\ err.kind = "UnknownTemplate"
              /\ exitCode = 1
              /\ out = <<ErrorMsg("UnknownTemplate")>>
              /\ IsLowerCaseOf(err.detail[1], ValueOfLast(args, {"--template", "-t"}))
              /\ \A t \in FiveTemplates : \E i \in 2..Len(err.detail) : err.detail[i] = t
              /\ Len(err.detail) = 6

UnknownTemplateRejected ==
    /\ pc = "exit"
    /\ args = <<"app", "-t", "x@y">>
    /\ err.kind = "UnknownTemplate"
    /\ exitCode = 1
    /\ InitialCwd \o <<"app">> \notin dirs

\* the paths, relative to the project directory, whose existence the test
\* of the template asserts
TestAsserted(t) ==
    CASE t = "basic" -> {<<"src">>, <<"utils">>, <<"package.json">>, <<"README.md">>}
      [] t = "web"   -> {<<"src", "index.html">>, <<"src", "css", "style.css">>,
                         <<"src", "js", "app.js">>}
      [] t = "api"   -> {<<"src", "server.js">>, <<"src", "routes">>,
                         <<"src", "controllers">>, <<"config">>}
      [] t = "cli"   -> {<<"src", "cli.js">>, <<"commands">>}
      [] OTHER       -> {}

\* C20: after a run that was not a help run has exited with code 0, the
\* project directory <cwd>/<projectName> exists and every path the test of
\* the run's template asserts exists in it.
SuccessfulRunPassesTheTestAssertions ==
    (pc = "exit" /\ exitCode = 0 /\ ~HelpAnywhere(args)) =>
        /\ config.template \in FiveTemplates
        /\ ProjectRoot \in dirs
        /\ \A rel \in TestAsserted(config.template) : ExistsSync(ProjectRoot \o rel)

WebProjectPassesItsTest ==
    /\ pc = "exit"
    /\ exitCode = 0
    /\ args = <<"app", "-t", "web">>
    /\ ExistsSync(ProjectRoot \o <<"src", "index.html">>)
    /\ ExistsSync(ProjectRoot \o <<"src", "css", "style.css">>)
    /\ ExistsSync(ProjectRoot \o <<"src", "js", "app.js">>)

\* C21 (as claimed): the README.md in the project directory is what
\* generateReadme returns for the project name, the template and the author,
\* and every template writes it.
RootReadmeFromSharedRoutine ==
    /\ \A p \in DOMAIN files :
          RelOf(p) = <<"README.md">> =>
              \E now \in Dates :
                  files[p] = GenerateReadme(config.projectName, config.template,
                                            config.author, now)
    /\ GenerateReturned => projectPath \o <<"README.md">> \in DOMAIN files

\* some message equal to each of the four is logged, in this order
LoggedInOrder(m1, m2, m3, m4) ==
    \E i, j, k, l \in 1..Len(out) :
        /\ i < j /\ j < k /\ k < l
        /\ out[i] = m1 /\ out[j] = m2 /\ out[k] = m3 /\ out[l] = m4

\* C23 (as claimed): a run with --git whose git commands succeed logs
\* 'Project structure created', then 'Initializing Git repository...', then
\* 'Git repository initialized', then 'created successfully'.
StructureCreatedLoggedBeforeGit ==
    (pc = "exit" /\ exitCode = 0 /\ config.gitInit /\ ~GitFailed) =>
        LoggedInOrder(Success("Project structure created"),
                      Info("Initializing Git repository..."),
                      Success("Git repository initialized"),
                      Success("created successfully"))

\* C24 (as claimed): the token taken as project name is not the token right
\* after --template, -t, --author or -a.
ProjectNameIsNotAFlagValue ==
    config # NoConfig =>
        \A i \in 1..Len(args) :
            FirstNonFlagAt(args, i) => (i = 1 \/ args[i - 1] \notin ValueFlags)

\* the createDir and writeFile calls generate makes for the run's
\* configuration when the current date is now
OpsOn(now) ==
    Generate(config.template,
             [projectName |-> config.projectName, author |-> config.author], now)

\* the content with the 'Created on' date of a README blanked
WithoutDate(c) == IF c.kind = "readme" THEN [c EXCEPT !.createdOn = ""] ELSE c

\* C22 (as claimed): every file in the project directory has the content
\* generate gives it for the run's template, project name and author on any
\* date.
ContentIndependentOfDate ==
    \A now \in Dates :
        LET ops == OpsOn(now)
        IN  \A p \in DOMAIN files :
                \E k \in 1..Len(ops) :
                    /\ ops[k].op = "writeFile"
                    /\ ops[k].rel = RelOf(p)
                    /\ files[p] = ops[k].content

\* C22 (amended): the paths written are those generate gives for the run's
\* template, project name and author, and so are the contents on any date,
\* but for the 'Created on' date in the README.md of basic, web, api and cli,
\* which is the date of the run; the README.md of fullstack has no date.
ContentIndependentOfDateButCreatedOn ==
    /\ \A now \in Dates :
          LET ops == OpsOn(now)
          IN  /\ \A p \in DOMAIN files :
                    \E k \in 1..Len(ops) :
                        /\ ops[k].op = "writeFile"
                        /\ ops[k].rel = RelOf(p)
                        /\ WithoutDate(files[p]) = WithoutDate(ops[k].content)
                        /\ files[p] # ops[k].content =>
                              /\ RelOf(p) = <<"README.md">>
                              /\ config.template # "fullstack"
                              /\ files[p].createdOn \in Dates
              /\ GenerateReturned =>
                    \A k \in 1..Len(ops) :
                        ops[k].op = "writeFile" =>
                            projectPath \o ops[k].rel \in DOMAIN files

ReadmeDatedOnSecondDay ==
    /\ pc = "exit"
    /\ exitCode = 0
    /\ config.template = "web"
    /\ files[projectPath \o <<"README.md">>].createdOn = "1/2/2026"
    /\ files[projectPath \o <<"README.md">>].createdOn
          # OpsOn("1/1/2026")[9].content.createdOn

\* C29: version-control commands run only when gitInit is true and generate
\* has completed, in the order init, add, commit, inside the project
\* directory; after a failed one no other is run and 'Git repository
\* initialized' is not reported; when gitInit is false no command is run and
\* the working directory is never changed.
GitCommandsOnlyWhenAskedInOrder ==
    /\ execLog # << >> =>
          /\ config # NoConfig
          /\ config.gitInit
          /\ GenerateReturned
          /\ GeneratedInPlace
    /\ Len(execLog) <= Len(GitCommands)
    /\ \A i \in 1..Len(execLog) :
          /\ execLog[i].cmd = GitCommands[i]
          /\ execLog[i].cwd = projectPath
          /\ execLog[i].status = "error" => i = Len(execLog)
    /\ GitFailed =>
          /\ pc \notin {"git", "gitDone"}
          /\ ~Logged(Success("Git repository initialized"))
    /\ Logged(Success("Git repository initialized")) =>
          /\ Len(execLog) = Len(GitCommands)
          /\ \A i \in 1..Len(execLog) : execLog[i].status = "ok"
    /\ (config # NoConfig /\ ~config.gitInit) =>
          /\ execLog = << >>
          /\ cwd = InitialCwd
          /\ savedCwd = NoPath
          /\ pc \notin {"initGit", "git", "gitDone"}
    /\ config = NoConfig => execLog = << >> /\ cwd = InitialCwd

SecondGitCommandFailed ==
    /\ pc = "exit"
    /\ exitCode = 0
    /\ Len(execLog) = 2
    /\ execLog[1] = [cmd |-> "git init", cwd |-> projectPath, status |-> "ok"]
    /\ execLog[2] = [cmd |-> "git add .", cwd |-> projectPath, status |-> "error"]
    /\ Logged(Warning("Git initialization failed"))

-----------------------------------------------------------------------------
(* Properties of the argument parser (specification SpecParse) *)

\* no token of the argument list can be the project name
NoProjectNameToken == \A i \in 1..Len(args) : StartsWithDash(args[i])

\* --template, -t, --author or -a is in the argument list without a value
SomeFlagValueMissing ==
    \E i \in 1..Len(args) : args[i] \in ValueFlags /\ MissingValue(args, i)

\* C27: an argument list without a token that can be the project name fails
\* with the 'project name required' error, whatever its flags are, also when
\* --template or --author in it has no value.
MissingProjectNameComesFirst ==
    (pc # "start" /\ NoProjectNameToken) =>
        /\ pc = "exit"
        /\ exitCode = 1
        /\ err = [kind |-> "MissingProjectName", detail |-> << >>]
        /\ config = NoConfig
        /\ out = <<ErrorMsg("MissingProjectName")>>

NoProjectNameAndNoFlagValue ==
    /\ pc = "exit"
    /\ args = <<"--git", "-t", "--author">>
    /\ SomeFlagValueMissing
    /\ err.kind = "MissingProjectName"

\* C28: when --template/-t or --author/-a is given more than once, the parsed
\* template (lower-cased) or author is the value of the last occurrence; an
\* argument list with --git/-g repeated parses like the list with one of them
\* (one given as a flag, not standing where --template or --author expects
\* its value) taken out.
RepeatedFlagsLastWins ==
    pc # "start" =>
        /\ (config # NoConfig /\ Cardinality(Positions(args, {"--template", "-t"})) > 1)
               => IsLowerCaseOf(config.template, ValueOfLast(args, {"--template", "-t"}))
        /\ (config # NoConfig /\ Cardinality(Positions(args, {"--author", "-a"})) > 1)
               => config.author = ValueOfLast(args, {"--author", "-a"})
        /\ \A k \in Positions(args, {"--git", "-g"}) :
               (/\ Cardinality(Positions(args, {"--git", "-g"})) > 1
                /\ (k = 1 \/ args[k - 1] \notin ValueFlags))
                   => ParsedLike(RemoveAt(args, k))

TemplateGivenTwice ==
    /\ pc = "validate"
    /\ args = <<"app", "-t", "web", "--template", "Api">>
    /\ config.template = "api"

-----------------------------------------------------------------------------
(* Properties of generate called directly (specification SpecGenerate) *)

\* the files below the project directory are the ones the basic template
\* writes for this project name and author, with their contents
BasicFilesWritten ==
    \E now \in Dates :
        LET ops == GenerateBasicTemplate([projectName |-> config.projectName,
                                          author |-> config.author], now)
        IN  \A k \in 1..Len(ops) :
              ops[k].op = "writeFile" =>
                  /\ projectPath \o ops[k].rel \in DOMAIN files
                  /\ files[projectPath \o ops[k].rel] = ops[k].content

\* C30: generate called with a template value outside the five known names
\* throws nothing of its own (only a failing filesystem call ends it early)
\* and, once returned, has made exactly the directories and files of the
\* basic template.
UnknownTemplateGeneratesBasic ==
    ~Includes(ValidTemplates, config.template) =>
        /\ err.kind \in {"none", "FilesystemWriteFailure"}
        /\ ProjectRel(dirs) \subseteq TableDirs("basic")
        /\ ProjectRel(DOMAIN files) \subseteq TableFiles("basic")
        /\ pc \notin {"generate", "exit"} =>
              /\ err.kind = "none"
              /\ ProjectRel(dirs) = TableDirs("basic")
              /\ ProjectRel(DOMAIN files) = TableFiles("basic")
              /\ BasicFilesWritten

UnknownTemplateGenerated ==
    /\ config.template = "Api"
    /\ pc = "created"
    /\ start.dirs = {InitialCwd}
    /\ projectPath \o <<"utils", "helpers.js">> \in DOMAIN files

-----------------------------------------------------------------------------
(* Properties of two interleaved processes (specification SpecBoth) *)

\* process p is past validateConfig, which accepted its configuration
PassedValidation(p) ==
    /\ p.config # NoConfig
    /\ p.pc \notin {"start", "validate"}
    /\ p.err.kind \notin {"InvalidName", "DirectoryExists", "UnknownTemplate"}

\* process p has written a file below its project directory
WroteIntoProject(p) ==
    /\ p.projectPath # NoPath
    /\ p.pc # "generate"
    /\ p.err.kind = "none"
    /\ \E f \in DOMAIN files : Below(f, p.projectPath)

\* C25: of two interleaved invocations with the same project name and working
\* directory, at most one passes validation and writes into the project
\* directory, and the other one fails with DirectoryExists.
AtMostOneInvocationCreatesTheProject ==
    (/\ other # NoOther
     /\ config # NoConfig
     /\ other.config # NoConfig
     /\ config.projectName = other.config.projectName
     /\ cwd = other.cwd)
    => /\ ~(PassedValidation(Local) /\ PassedValidation(other))
       /\ ~(WroteIntoProject(Local) /\ WroteIntoProject(other))
       /\ (pc = "exit" /\ other.pc = "exit" /\ exitCode = 0)
              => other.err.kind = "DirectoryExists"

-----------------------------------------------------------------------------
(* Properties of runs in a row (specification SpecTwice) *)

\* the previous run succeeded in creating a project of the same name
RerunOfSuccessfulRun ==
    /\ runs >= 2
    /\ prev.exitCode = 0
    /\ prev.config # NoConfig
    /\ config # NoConfig
    /\ config.projectName = prev.config.projectName

\* C2: a run that follows a successful run with the same project name fails
\* with DirectoryExists and exit code 1, and changes no directory or file.
SecondRunFailsWithDirectoryExists ==
    RerunOfSuccessfulRun =>
        /\ FilesystemUntouched
        /\ pc \in {"validate", "exit"}
        /\ pc = "exit" => (err.kind = "DirectoryExists" /\ exitCode = 1)

SecondRunRejected ==
    /\ RerunOfSuccessfulRun
    /\ pc = "exit"
    /\ err.kind = "DirectoryExists"
    /\ InitialCwd \o <<config.projectName, "package.json">> \in DOMAIN files

\* a run before this one, with the same project name, failed inside generate
RerunOfPartlyGeneratedProject ==
    /\ runs >= 2
    /\ config # NoConfig
    /\ config.projectName \in prev.failed

\* C26: after a run whose generate failed partway, every later run with the
\* same project name in the same working directory fails with DirectoryExists
\* and adds or changes nothing: the missing files are never completed.
RerunNeverCompletesPartlyGeneratedProject ==
    RerunOfPartlyGeneratedProject =>
        /\ FilesystemUntouched
        /\ pc \in {"validate", "exit"}
        /\ pc = "exit" => (err.kind = "DirectoryExists" /\ exitCode = 1)

RerunOfPartlyGeneratedProjectRejected ==
    /\ RerunOfPartlyGeneratedProject
    /\ pc = "exit"
    /\ err.kind = "DirectoryExists"
    /\ InitialCwd \o <<config.projectName>> \in dirs
    /\ InitialCwd \o <<config.projectName, "README.md">> \notin DOMAIN files

====
